---- MODULE Spec2Model ----
(***************************************************************************)
(* Deep Research orchestration: ResearchManager.run (research_manager.py)  *)
(* and its caller do_research (app.py).                                    *)
(*                                                                         *)
(* run is an async generator.  The model has one action per segment of    *)
(* its body between two suspension points (a yield, or an await of a      *)
(* collaborator), and pc names the suspension point the generator is at.  *)
(* Collaborators (planner, searcher, gap analyzer, fact checker, writer,  *)
(* delivery) are black boxes that return a value or raise.                 *)
(***************************************************************************)
EXTENDS Integers, Sequences, FiniteSets, TLC

VARIABLES
    entry,            \* "app": run is driven by do_research; "run": run is iterated directly
    query,            \* the query text of the request
    config,           \* ResearchConfig handed to run
    pc,               \* suspension point of the generator / of do_research
    total_steps,      \* ResearchManager.total_steps
    completed_steps,  \* ResearchManager.completed_steps
    search_plan,      \* WebSearchPlan.searches returned by the planner
    followup_plan,    \* FollowUpSearchPlan returned by the gap analyzer
    running,          \* search tasks created by the current fan-out and not yet settled
    results,          \* the list `results` built by the current _perform_all_searches
    failed,           \* search tasks whose _single_search returned None
    finished,         \* items whose searcher call returned a result, in order of return
    search_results,   \* the list `search_results` of run
    followup_results, \* the list `followup_results` of run
    loop_i,           \* number of iterations of the current result loop already run
    fact_check_report,\* None or the FactCheckReport
    inflight,         \* the collaborator call run is awaiting, or "none"
    calls,            \* collaborator invocations so far, in order
    sent,             \* the input built for the collaborator call in flight
    events,           \* what run has yielded so far, in order
    shown,            \* what do_research has yielded so far, in order
    other             \* a second request of do_research, while it is not the one taking steps

vars == <<entry, query, config, pc, total_steps, completed_steps, search_plan,
          followup_plan, running, results, failed, finished, search_results,
          followup_results, loop_i, fact_check_report, inflight, calls,
          sent, events, shown, other>>

----------------------------------------------------------------------------
(* Bounds of the model *)

\* the gap analyzer returns at most MaxFollow search items
MaxFollow == 1
\* the longest exception message a collaborator raises with
MaxErrLen == 301

----------------------------------------------------------------------------
(* config.py *)

Depths == {"quick", "standard", "deep"}

DEPTH_SEARCH_COUNT(depth) ==
    CASE depth = "quick" -> 3
      [] depth = "standard" -> 5
      [] depth = "deep" -> 10

\* Optional[str]: "None" stands for the value None
None == "None"
Addresses == {None, "", "a@b"}

ResearchConfig ==
    [depth : Depths,
     enable_fact_check : BOOLEAN,
     enable_two_phase_search : BOOLEAN,
     send_email : BOOLEAN,
     email_address : Addresses]

\* Python truth value of an Optional[str]
Truthy(s) == s # None /\ s # ""

----------------------------------------------------------------------------
(* Progress fractions are kept exact, as <<numerator, denominator>> *)

Max(a, b) == IF a >= b THEN a ELSE b

One == <<1, 1>>
Zero == <<0, 1>>

\* r <= s for fractions with positive denominators
FracLeq(r, s) == r[1] * s[2] <= s[1] * r[2]

FracMin(r, s) == IF FracLeq(r, s) THEN r ELSE s

----------------------------------------------------------------------------
(* Values exchanged with the collaborators *)

\* WebSearchItem: the query text identifies the item (phase and position in the plan)
WebSearchItem(phase, i) == [query |-> <<phase, i>>]

\* numbers of items the planner returns: the schema sets no length, the prompt
\* asks for the depth's count; from none to one more than the smallest count
PlanSizes == 0..(DEPTH_SEARCH_COUNT("quick") + 1)

\* the list of k items a planner of the given phase returns
Searches(phase, k) == [i \in 1..k |-> WebSearchItem(phase, i)]

\* FollowUpSearchPlan before the gap analyzer has returned one
NoFollowUp == [returned |-> FALSE, needs_followup |-> FALSE, searches |-> <<>>]

FollowUpSearchPlan(needs, k) ==
    [returned |-> TRUE, needs_followup |-> needs, searches |-> Searches("followup", k)]

\* what Runner.run(search_agent, ...) does for an item: it raises, or it returns a
\* SearchResult whose search_query is empty or repeats the item's query
SearcherResponses(item) ==
    { [raises |-> TRUE,  search_query |-> <<>>],
      [raises |-> FALSE, search_query |-> <<>>],
      [raises |-> FALSE, search_query |-> item.query] }

\* SearchResult: item stands for the content found for that item
SearchResult(item, q) == [item |-> item, search_query |-> q]

\* the value None returned by _single_search, as a record of the same shape
\* that is the result of no task
NoResult == [item |-> [query |-> <<"None">>], search_query |-> <<>>]

\* lengths of the messages exceptions carry
MsgLimit == 300
ErrLens == {0, MsgLimit, MaxErrLen}

----------------------------------------------------------------------------
(* ResearchManager *)

\* about: the query preview a per-item message carries, empty for other messages
ProgressUpdate(stage, progress) ==
    [kind |-> "progress", stage |-> stage, progress |-> progress, about |-> <<>>]

\* result.search_query[:40]
PreviewLen == 40
Preview(q) == SubSeq(q, 1, IF Len(q) < PreviewLen THEN Len(q) ELSE PreviewLen)

\* the ProgressUpdate of one iteration of a result loop
ItemUpdate(stage, progress, result) ==
    [kind |-> "progress", stage |-> stage, progress |-> progress,
     about |-> Preview(result.search_query)]

\* the str yielded last by run (report.markdown_report)
ReportBody ==
    [kind |-> "content", stage |-> "markdown_report", progress |-> One, about |-> <<>>]

\* variant: two-phase search is budgeted with one step instead of two
_calculate_total_steps_twophase1(cfg) ==
    2 + DEPTH_SEARCH_COUNT(cfg.depth)
      + (IF cfg.enable_two_phase_search THEN 1 ELSE 0)
      + (IF cfg.enable_fact_check THEN 1 ELSE 0)
      + (IF cfg.send_email THEN 1 ELSE 0)

\* variant: the fact-check step is counted whatever the flag
_calculate_total_steps_factalways(cfg) ==
    2 + DEPTH_SEARCH_COUNT(cfg.depth)
      + (IF cfg.enable_two_phase_search THEN 2 ELSE 0)
      + 1
      + (IF cfg.send_email THEN 1 ELSE 0)

\* variant: planning and writing are not counted
_calculate_total_steps_searchesonly(cfg) ==
    DEPTH_SEARCH_COUNT(cfg.depth)
      + (IF cfg.enable_two_phase_search THEN 2 ELSE 0)
      + (IF cfg.enable_fact_check THEN 1 ELSE 0)
      + (IF cfg.send_email THEN 1 ELSE 0)

_calculate_total_steps(cfg) ==
    LET s0 == 2
        s1 == s0 + DEPTH_SEARCH_COUNT(cfg.depth)
        s2 == IF cfg.enable_two_phase_search THEN s1 + 2 ELSE s1
        s3 == IF cfg.enable_fact_check THEN s2 + 1 ELSE s2
        s4 == IF cfg.send_email THEN s3 + 1 ELSE s3
    IN  s4

\* variant: the fraction of the steps that remain
_update_progress_remaining(completed, total) ==
    FracMin(<<total - completed, Max(total, 1)>>, One)

\* variant: the operands of the division are exchanged
_update_progress_swapped(completed, total) ==
    FracMin(<<total, Max(completed, 1)>>, One)

\* variant: the quotient is returned without min(..., 1.0)
_update_progress_noclamp(completed, total) ==
    <<completed, Max(total, 1)>>

\* _update_progress() called without argument: the fraction it returns
_update_progress(completed, total) ==
    FracMin(<<completed, Max(total, 1)>>, One)

\* variant: a step counts twice
Advance_double(completed) == completed + 2

\* self.completed_steps += 1
Advance(completed) == completed + 1

\* variant: the total is left as estimated
Grow_none(total, plan) == total

\* variant: the total grows by one more than the number of follow-up items
Grow_extra(total, plan) == total + Len(plan.searches) + 1

\* self.total_steps += len(followup_plan.searches)
Grow(total, plan) == total + Len(plan.searches)

\* variant: the follow-up branch is taken on the flag alone
FollowupFires_flagonly(plan) == plan.needs_followup

\* the condition under which the follow-up fan-out runs
FollowupFires(plan) == plan.needs_followup /\ Len(plan.searches) > 0

\* variant: the address is not looked at
DeliveryFires_flagonly(cfg) == cfg.send_email

\* the condition under which the delivery phase runs
DeliveryFires(cfg) == cfg.send_email /\ Truthy(cfg.email_address)

\* variant: gap analysis is entered whatever the number of results
StageAfterSearches_anycount(cfg, sr) ==
    IF cfg.enable_two_phase_search THEN "analyzing_gaps"
    ELSE IF cfg.enable_fact_check THEN "fact_checking"
    ELSE "writing"

\* variant: gap analysis is entered whatever the two-phase flag
StageAfterSearches_noflag(cfg, sr) ==
    IF Len(sr) > 0 THEN "analyzing_gaps"
    ELSE IF cfg.enable_fact_check THEN "fact_checking"
    ELSE "writing"

\* variant: a run without results stops before the report is written
StageAfterSearches_stopempty(cfg, sr) ==
    IF Len(sr) = 0 THEN "complete"
    ELSE IF cfg.enable_two_phase_search THEN "analyzing_gaps"
    ELSE IF cfg.enable_fact_check THEN "fact_checking"
    ELSE "writing"

\* the stage run yields next once the initial search loop has ended
StageAfterSearches(cfg, sr) ==
    IF cfg.enable_two_phase_search /\ Len(sr) > 0 THEN "analyzing_gaps"
    ELSE IF cfg.enable_fact_check THEN "fact_checking"
    ELSE "writing"

\* variant: the fact-check branch is entered at its completion event
StageAfterFollowup_nostart(cfg) ==
    IF cfg.enable_fact_check THEN "fact_check_complete" ELSE "writing"

\* the stage run yields next once the follow-up branch has ended or was skipped
StageAfterFollowup(cfg) ==
    IF cfg.enable_fact_check THEN "fact_checking" ELSE "writing"

\* the stage run yields next once the report is written
StageAfterWriting(cfg) ==
    IF DeliveryFires(cfg) THEN "sending_email" ELSE "complete"

\* variant: 'complete' carries the computed fraction instead of the literal 1.0
CompleteProgress_computed(completed, total) == _update_progress(completed, total)

\* the fraction carried by the 'complete' event
CompleteProgress(completed, total) == One

\* variant: the query field is taken as the searcher returned it
_single_search_nobackfill(item, resp) ==
    IF resp.raises THEN NoResult
    ELSE SearchResult(item, resp.search_query)

\* _single_search: the searcher's response for item becomes a SearchResult or None
_single_search(item, resp) ==
    IF resp.raises THEN NoResult
    ELSE IF resp.search_query = <<>> THEN SearchResult(item, item.query)
    ELSE SearchResult(item, resp.search_query)

\* variant: every awaited value is appended, None included
Collect_all(acc, result) == Append(acc, result)

\* variant: a kept result is put in front of the earlier ones
Collect_prepend(acc, result) ==
    IF result # NoResult THEN <<result>> \o acc ELSE acc

\* the body of the as_completed loop: keep a result that is not None
Collect(acc, result) ==
    IF result # NoResult THEN Append(acc, result) ELSE acc

----------------------------------------------------------------------------
(* The inputs run builds for its collaborators *)

\* what the searcher reports for a task: the numbers of key facts and of sources
\* are fixed per task, so that outcomes without facts, with few and with more
\* than FactCap facts, and with fewer and more than SourceCap sources all occur
FactsFound(item) ==
    IF item.query[1] = "followup" THEN 3
    ELSE CASE item.query[2] = 1 -> 8
           [] item.query[2] = 2 -> 12
           [] item.query[2] = 3 -> 0
           [] OTHER -> 21

SourcesFound(item) ==
    IF item.query[1] = "followup" THEN 5
    ELSE CASE item.query[2] = 1 -> 0
           [] item.query[2] = 2 -> 3
           [] item.query[2] = 3 -> 4
           [] OTHER -> 2

\* SearchResult.key_facts, SearchResult.sources and SearchResult.summary
key_facts(r) == [k \in 1..FactsFound(r.item) |-> <<"fact", r.item.query, k>>]
sources(r) == [k \in 1..SourcesFound(r.item) |-> <<"source", r.item.query, k>>]
summary(r) == <<"summary", r.item.query>>

\* claims[:20]
FactCap == 20
\* r.sources[:3]
SourceCap == 3

\* s[:n]
Take(s, n) == SubSeq(s, 1, IF Len(s) < n THEN Len(s) ELSE n)

\* claims.extend(r.key_facts) for r in search_results
RECURSIVE Extend(_)
Extend(sr) ==
    IF sr = <<>> THEN <<>> ELSE key_facts(Head(sr)) \o Extend(Tail(sr))

_plan_searches(q) == [query |-> q]

_plan_followup_searches(q, initial_results) ==
    [query |-> q,
     summaries |-> [i \in 1..Len(initial_results) |->
                       [search_query |-> initial_results[i].search_query,
                        summary |-> summary(initial_results[i])]]]

\* variant: only the outcomes of the initial searches are used
_fact_check_initialonly(sr) ==
    LET first == SelectSeq(sr, LAMBDA r : r.item.query[1] = "initial")
    IN  [claims |-> Take(Extend(first), FactCap),
         summaries |-> [i \in 1..Len(first) |-> summary(first[i])]]

\* variant: every claim is listed
_fact_check_uncapped(sr) ==
    [claims |-> Extend(sr),
     summaries |-> [i \in 1..Len(sr) |-> summary(sr[i])]]

_fact_check(sr) ==
    [claims |-> Take(Extend(sr), FactCap),
     summaries |-> [i \in 1..Len(sr) |-> summary(sr[i])]]

\* variant: every source is listed
Digest_allsources(r) ==
    [search_query |-> r.search_query,
     summary |-> summary(r),
     key_facts |-> key_facts(r),
     sources |-> sources(r)]

\* one entry of search_summaries
Digest(r) ==
    [search_query |-> r.search_query,
     summary |-> summary(r),
     key_facts |-> key_facts(r),
     sources |-> Take(sources(r), SourceCap)]

_write_report(q, sr, fact_check) ==
    [query |-> q,
     search_summaries |-> [i \in 1..Len(sr) |-> Digest(sr[i])],
     has_fact_check |-> fact_check # None]

_send_email(email_address) == [to |-> email_address]

----------------------------------------------------------------------------
(* do_research *)

Queries == {"", " ", "q"}

\* variant: blanks count as text
Strip_asis(q) == q

\* str.strip() on the modelled queries
Strip(q) == IF q = " " THEN "" ELSE q

\* the config do_research builds: every flag is fixed, only the depth varies
AppConfig(depth) ==
    [depth |-> depth,
     enable_fact_check |-> TRUE,
     enable_two_phase_search |-> TRUE,
     send_email |-> FALSE,
     email_address |-> None]

\* variant: the message is not cut
Truncate_whole(len) == len

\* str(e)[:300]
Truncate(len) == IF len > MsgLimit THEN MsgLimit ELSE len

\* what do_research yields for one item of the run's stream
Display(update) ==
    IF update.kind = "progress"
    THEN [kind |-> "progress", pct |-> update.progress, len |-> 0]
    ELSE [kind |-> "content", pct |-> One, len |-> 0]

\* progress_html: int(pct*100), the percentage shown for a fraction
Percent(pct) == (pct[1] * 100) \div pct[2]

Prompt == [kind |-> "prompt", pct |-> Zero, len |-> 0]
Starting == [kind |-> "starting", pct |-> <<5, 100>>, len |-> 0]
ErrorPayload(len) == [kind |-> "error", pct |-> Zero, len |-> Truncate(len)]

----------------------------------------------------------------------------
(* Initial state: a request has arrived, nothing has run *)

\* there is no second request
NoRequest == [pc |-> "absent"]

Init ==
    /\ entry \in {"app", "run"}
    /\ IF entry = "app"
       THEN query \in Queries /\ config \in {AppConfig(d) : d \in Depths}
       ELSE query = "q" /\ config \in ResearchConfig
    /\ pc = "idle"
    /\ total_steps = 0
    /\ completed_steps = 0
    /\ search_plan = <<>>
    /\ followup_plan = NoFollowUp
    /\ running = {}
    /\ results = <<>>
    /\ failed = {}
    /\ finished = <<>>
    /\ search_results = <<>>
    /\ followup_results = <<>>
    /\ loop_i = 0
    /\ fact_check_report = None
    /\ inflight = "none"
    /\ calls = <<>>
    /\ sent = <<>>
    /\ events = <<>>
    /\ shown = <<>>
    /\ other = NoRequest

----------------------------------------------------------------------------
(* Building blocks of the actions *)

\* run yields item; when do_research drives the run it yields Display(item) in turn
Emit(item) ==
    /\ events' = Append(events, item)
    /\ shown' = IF entry = "app" THEN Append(shown, Display(item)) ELSE shown

\* run yields a ProgressUpdate for stage and is suspended at that yield
Yield(stage, completed, total) ==
    /\ Emit(ProgressUpdate(stage,
            IF stage = "complete" THEN CompleteProgress(completed, total)
            ELSE _update_progress(completed, total)))
    /\ pc' = stage

\* run yields the ProgressUpdate about one result and is suspended at that yield
YieldItem(stage, completed, total, result) ==
    /\ Emit(ItemUpdate(stage, _update_progress(completed, total), result))
    /\ pc' = stage

\* variant: the delivery call is started and run goes on without awaiting it
Call_detached(name, input) ==
    /\ inflight' = name
    /\ calls' = Append(calls, name)
    /\ sent' = input
    /\ pc' = IF name = "email" THEN "email_sent" ELSE "await_" \o name

\* run builds the input of a collaborator call and starts awaiting the call
Call(name, input) ==
    /\ inflight' = name
    /\ calls' = Append(calls, name)
    /\ sent' = input
    /\ pc' = "await_" \o name

\* variant: the fan-out returns whether or not its tasks have settled
AllSettled_any(tasks) == TRUE

\* variant: the fan-out returns while its last task is still in flight
AllSettled_butone(tasks) == Cardinality(tasks) <= 1

\* variant: the fan-out goes on waiting when a task has failed
AllSettled_nofailure(tasks) == tasks = {} /\ failed = {}

\* variant: the fan-out returns as soon as it has a result
AllSettled_firstresult(tasks) == tasks = {} \/ results # <<>>

\* the as_completed loop has ended: every task of the fan-out has settled
AllSettled(tasks) == tasks = {}

\* variant: only the first task is created
Dispatch_sequential(searches) ==
    /\ running' = IF Len(searches) > 0 THEN {searches[1]} ELSE {}
    /\ results' = <<>>
    /\ calls' = calls \o [i \in 1..Len(searches) |-> "searcher"]

\* _perform_all_searches creates one task per item
Dispatch(searches) ==
    /\ running' = {searches[i] : i \in 1..Len(searches)}
    /\ results' = <<>>
    /\ calls' = calls \o [i \in 1..Len(searches) |-> "searcher"]

request == <<entry, query, config, other>>
counters == <<total_steps, completed_steps>>
fanout == <<running, results, failed, finished>>
outputs == <<events, shown>>

----------------------------------------------------------------------------
(* do_research before the run starts *)

\* an empty or blank query: one prompt is yielded and do_research returns
Reject ==
    /\ entry = "app" /\ pc = "idle"
    /\ Strip(query) = ""
    /\ shown' = Append(shown, Prompt)
    /\ pc' = "rejected"
    /\ UNCHANGED <<request, sent, counters, search_plan, followup_plan, fanout,
                   search_results, followup_results, loop_i, fact_check_report,
                   inflight, calls, events>>

\* the 'Starting...' update; the config and the manager are built on resumption
Begin ==
    /\ entry = "app" /\ pc = "idle"
    /\ Strip(query) # ""
    /\ shown' = Append(shown, Starting)
    /\ pc' = "started"
    /\ UNCHANGED <<request, sent, counters, search_plan, followup_plan, fanout,
                   search_results, followup_results, loop_i, fact_check_report,
                   inflight, calls, events>>

----------------------------------------------------------------------------
(* ResearchManager.run, one action per segment between suspension points *)

\* first iteration: the step budget is estimated and 'init' is yielded with 0.0
Start ==
    /\ \/ entry = "app" /\ pc = "started"
       \/ entry = "run" /\ pc = "idle"
    /\ total_steps' = _calculate_total_steps(config)
    /\ completed_steps' = 0
    /\ Emit(ProgressUpdate("init", Zero))
    /\ pc' = "init"
    /\ UNCHANGED <<request, sent, search_plan, followup_plan, fanout, search_results,
                   followup_results, loop_i, fact_check_report, inflight, calls>>

ResumeInit ==
    /\ pc = "init"
    /\ Yield("planning", completed_steps, total_steps)
    /\ UNCHANGED <<request, sent, counters, search_plan, followup_plan, fanout,
                   search_results, followup_results, loop_i, fact_check_report,
                   inflight, calls>>

\* await self._plan_searches(config)
CallPlanner ==
    /\ pc = "planning"
    /\ Call("planner", _plan_searches(query))
    /\ UNCHANGED <<request, counters, search_plan, followup_plan, fanout,
                   search_results, followup_results, loop_i, fact_check_report,
                   outputs>>

\* the planner returns a plan of k items
PlannerReturns ==
    /\ pc = "await_planner"
    /\ \E k \in PlanSizes :
          search_plan' = Searches("initial", k)
    /\ inflight' = "none"
    /\ sent' = <<>>
    /\ completed_steps' = Advance(completed_steps)
    /\ Yield("planning_complete", completed_steps', total_steps)
    /\ UNCHANGED <<request, total_steps, followup_plan, fanout, search_results,
                   followup_results, loop_i, fact_check_report, calls>>

\* await self._perform_all_searches(search_plan.searches, config): tasks are created
DispatchSearches ==
    /\ pc = "planning_complete"
    /\ Dispatch(search_plan)
    /\ pc' = "await_searches"
    /\ UNCHANGED <<request, sent, counters, search_plan, followup_plan, failed,
                   finished, search_results, followup_results, loop_i, fact_check_report,
                   inflight, outputs>>

\* one task of the running fan-out settles and the as_completed loop takes its
\* value; Responses[item] is what the searcher may do when called for item
Settle(Responses) ==
    /\ pc \in {"await_searches", "await_followups"}
    /\ \E item \in running :
       \E resp \in Responses[item] :
          /\ running' = running \ {item}
          /\ results' = Collect(results, _single_search(item, resp))
          /\ failed' = IF resp.raises THEN failed \cup {item} ELSE failed
          /\ finished' = IF resp.raises THEN finished ELSE Append(finished, item)
    /\ UNCHANGED <<request, sent, pc, counters, search_plan, followup_plan,
                   search_results, followup_results, loop_i, fact_check_report,
                   inflight, calls, outputs>>

\* variant: a task that settles counts a step itself
SearchSettles_counting ==
    /\ pc \in {"await_searches", "await_followups"}
    /\ \E item \in running :
       \E resp \in SearcherResponses(item) :
          /\ running' = running \ {item}
          /\ results' = Collect(results, _single_search(item, resp))
          /\ failed' = IF resp.raises THEN failed \cup {item} ELSE failed
          /\ finished' = IF resp.raises THEN finished ELSE Append(finished, item)
    /\ completed_steps' = completed_steps + 1
    /\ UNCHANGED <<request, sent, pc, total_steps, search_plan, followup_plan,
                   search_results, followup_results, loop_i, fact_check_report,
                   inflight, calls, outputs>>

SearchSettles == Settle([item \in running |-> SearcherResponses(item)])

\* the initial fan-out returns; the loop over its results starts
SearchesReturn ==
    /\ pc = "await_searches" /\ AllSettled(running)
    /\ search_results' = results
    /\ IF Len(results) > 0
       THEN /\ completed_steps' = Advance(completed_steps)
            /\ loop_i' = 1
            /\ YieldItem("searching", completed_steps', total_steps, results[1])
       ELSE /\ completed_steps' = completed_steps
            /\ loop_i' = 0
            /\ Yield(StageAfterSearches(config, results), completed_steps, total_steps)
    /\ UNCHANGED <<request, sent, total_steps, search_plan, followup_plan, fanout,
                   followup_results, fact_check_report, inflight, calls>>

\* next iteration of the loop over search_results, or the stage after it
ResumeSearching ==
    /\ pc = "searching"
    /\ IF loop_i < Len(search_results)
       THEN /\ completed_steps' = Advance(completed_steps)
            /\ loop_i' = loop_i + 1
            /\ YieldItem("searching", completed_steps', total_steps,
                         search_results[loop_i + 1])
       ELSE /\ completed_steps' = completed_steps
            /\ loop_i' = loop_i
            /\ Yield(StageAfterSearches(config, search_results),
                     completed_steps, total_steps)
    /\ UNCHANGED <<request, sent, total_steps, search_plan, followup_plan, fanout,
                   search_results, followup_results, fact_check_report, inflight,
                   calls>>

\* await self._plan_followup_searches(config.query, search_results)
CallGapAnalyzer ==
    /\ pc = "analyzing_gaps"
    /\ Call("gap", _plan_followup_searches(query, search_results))
    /\ UNCHANGED <<request, counters, search_plan, followup_plan, fanout,
                   search_results, followup_results, loop_i, fact_check_report,
                   outputs>>

\* the gap analyzer returns its flag and k items
GapAnalyzerReturns ==
    /\ pc = "await_gap"
    /\ \E needs \in BOOLEAN, k \in 0..MaxFollow :
          followup_plan' = FollowUpSearchPlan(needs, k)
    /\ inflight' = "none"
    /\ sent' = <<>>
    /\ completed_steps' = Advance(completed_steps)
    /\ IF FollowupFires(followup_plan')
       THEN Yield("followup_search", completed_steps', total_steps)
       ELSE Yield(StageAfterFollowup(config), completed_steps', total_steps)
    /\ UNCHANGED <<request, total_steps, search_plan, fanout, search_results,
                   followup_results, loop_i, fact_check_report, calls>>

\* the total grows, then the follow-up fan-out creates its tasks
DispatchFollowups ==
    /\ pc = "followup_search"
    /\ total_steps' = Grow(total_steps, followup_plan)
    /\ Dispatch(followup_plan.searches)
    /\ pc' = "await_followups"
    /\ UNCHANGED <<request, sent, completed_steps, search_plan, followup_plan, failed,
                   finished, search_results, followup_results, loop_i, fact_check_report,
                   inflight, outputs>>

\* the follow-up fan-out returns; the loop over its results starts
FollowupsReturn ==
    /\ pc = "await_followups" /\ AllSettled(running)
    /\ followup_results' = results
    /\ IF Len(results) > 0
       THEN /\ search_results' = Append(search_results, results[1])
            /\ completed_steps' = Advance(completed_steps)
            /\ loop_i' = 1
            /\ YieldItem("followup_searching", completed_steps', total_steps,
                         results[1])
       ELSE /\ search_results' = search_results
            /\ completed_steps' = completed_steps
            /\ loop_i' = 0
            /\ Yield(StageAfterFollowup(config), completed_steps, total_steps)
    /\ UNCHANGED <<request, sent, total_steps, search_plan, followup_plan, fanout,
                   fact_check_report, inflight, calls>>

\* next iteration of the loop over followup_results, or the stage after it
ResumeFollowupSearching ==
    /\ pc = "followup_searching"
    /\ IF loop_i < Len(followup_results)
       THEN /\ search_results' = Append(search_results, followup_results[loop_i + 1])
            /\ completed_steps' = Advance(completed_steps)
            /\ loop_i' = loop_i + 1
            /\ YieldItem("followup_searching", completed_steps', total_steps,
                         followup_results[loop_i + 1])
       ELSE /\ search_results' = search_results
            /\ completed_steps' = completed_steps
            /\ loop_i' = loop_i
            /\ Yield(StageAfterFollowup(config), completed_steps, total_steps)
    /\ UNCHANGED <<request, sent, total_steps, search_plan, followup_plan, fanout,
                   followup_results, fact_check_report, inflight, calls>>

\* await self._fact_check(search_results)
CallFactChecker ==
    /\ pc = "fact_checking"
    /\ Call("fact", _fact_check(search_results))
    /\ UNCHANGED <<request, counters, search_plan, followup_plan, fanout,
                   search_results, followup_results, loop_i, fact_check_report,
                   outputs>>

FactCheckerReturns ==
    /\ pc = "await_fact"
    /\ fact_check_report' = "FactCheckReport"
    /\ inflight' = "none"
    /\ sent' = <<>>
    /\ completed_steps' = Advance(completed_steps)
    /\ Yield("fact_check_complete", completed_steps', total_steps)
    /\ UNCHANGED <<request, total_steps, search_plan, followup_plan, fanout,
                   search_results, followup_results, loop_i, calls>>

ResumeFactCheckComplete ==
    /\ pc = "fact_check_complete"
    /\ Yield("writing", completed_steps, total_steps)
    /\ UNCHANGED <<request, sent, counters, search_plan, followup_plan, fanout,
                   search_results, followup_results, loop_i, fact_check_report,
                   inflight, calls>>

\* await self._write_report(config, search_results, fact_check_report)
CallWriter ==
    /\ pc = "writing"
    /\ Call("writer", _write_report(query, search_results, fact_check_report))
    /\ UNCHANGED <<request, counters, search_plan, followup_plan, fanout,
                   search_results, followup_results, loop_i, fact_check_report,
                   outputs>>

WriterReturns ==
    /\ pc = "await_writer"
    /\ inflight' = "none"
    /\ sent' = <<>>
    /\ completed_steps' = Advance(completed_steps)
    /\ Yield("writing_complete", completed_steps', total_steps)
    /\ UNCHANGED <<request, total_steps, search_plan, followup_plan, fanout,
                   search_results, followup_results, loop_i, fact_check_report,
                   calls>>

\* the delivery branch is entered, or 'complete' is yielded
ResumeWritingComplete ==
    /\ pc = "writing_complete"
    /\ Yield(StageAfterWriting(config), completed_steps, total_steps)
    /\ UNCHANGED <<request, sent, counters, search_plan, followup_plan, fanout,
                   search_results, followup_results, loop_i, fact_check_report,
                   inflight, calls>>

\* await self._send_email(report, config.email_address)
CallDelivery ==
    /\ pc = "sending_email"
    /\ Call("email", _send_email(config.email_address))
    /\ UNCHANGED <<request, counters, search_plan, followup_plan, fanout,
                   search_results, followup_results, loop_i, fact_check_report,
                   outputs>>

DeliveryReturns ==
    /\ pc = "await_email"
    /\ inflight' = "none"
    /\ sent' = <<>>
    /\ completed_steps' = Advance(completed_steps)
    /\ Yield("email_sent", completed_steps', total_steps)
    /\ UNCHANGED <<request, total_steps, search_plan, followup_plan, fanout,
                   search_results, followup_results, loop_i, fact_check_report,
                   calls>>

ResumeEmailSent ==
    /\ pc = "email_sent"
    /\ Yield("complete", completed_steps, total_steps)
    /\ UNCHANGED <<request, sent, counters, search_plan, followup_plan, fanout,
                   search_results, followup_results, loop_i, fact_check_report,
                   inflight, calls>>

\* yield report.markdown_report
YieldReport ==
    /\ pc = "complete"
    /\ Emit(ReportBody)
    /\ pc' = "report"
    /\ UNCHANGED <<request, sent, counters, search_plan, followup_plan, fanout,
                   search_results, followup_results, loop_i, fact_check_report,
                   inflight, calls>>

\* the generator body ends
Finish ==
    /\ pc = "report"
    /\ pc' = "done"
    /\ UNCHANGED <<request, sent, counters, search_plan, followup_plan, fanout,
                   search_results, followup_results, loop_i, fact_check_report,
                   inflight, calls, outputs>>

\* the awaited collaborator raises: the exception leaves run; do_research catches
\* it and yields one error payload, a direct caller of run receives the exception
PhaseRaises ==
    /\ inflight # "none"
    /\ inflight' = "none"
    /\ sent' = <<>>
    /\ IF entry = "app"
       THEN /\ \E len \in ErrLens : shown' = Append(shown, ErrorPayload(len))
            /\ pc' = "error"
       ELSE /\ shown' = shown
            /\ pc' = "raised"
    /\ UNCHANGED <<request, counters, search_plan, followup_plan, fanout,
                   search_results, followup_results, loop_i, fact_check_report,
                   calls, events>>

Next ==
    \/ Reject \/ Begin \/ Start \/ ResumeInit
    \/ CallPlanner \/ PlannerReturns
    \/ DispatchSearches \/ SearchSettles \/ SearchesReturn \/ ResumeSearching
    \/ CallGapAnalyzer \/ GapAnalyzerReturns
    \/ DispatchFollowups \/ FollowupsReturn \/ ResumeFollowupSearching
    \/ CallFactChecker \/ FactCheckerReturns \/ ResumeFactCheckComplete
    \/ CallWriter \/ WriterReturns \/ ResumeWritingComplete
    \/ CallDelivery \/ DeliveryReturns \/ ResumeEmailSent
    \/ YieldReport \/ Finish
    \/ PhaseRaises

Spec == Init /\ [][Next]_vars

----------------------------------------------------------------------------
(* ResearchManager.run iterated directly by its caller, for every config *)

RunInit == Init /\ entry = "run"

RunNext ==
    \/ Start \/ ResumeInit
    \/ CallPlanner \/ PlannerReturns
    \/ DispatchSearches \/ SearchSettles \/ SearchesReturn \/ ResumeSearching
    \/ CallGapAnalyzer \/ GapAnalyzerReturns
    \/ DispatchFollowups \/ FollowupsReturn \/ ResumeFollowupSearching
    \/ CallFactChecker \/ FactCheckerReturns \/ ResumeFactCheckComplete
    \/ CallWriter \/ WriterReturns \/ ResumeWritingComplete
    \/ CallDelivery \/ DeliveryReturns \/ ResumeEmailSent
    \/ YieldReport \/ Finish
    \/ PhaseRaises

RunSpec == RunInit /\ [][RunNext]_vars

----------------------------------------------------------------------------
(* The scheduling of a run: the event loop resumes every coroutine that can
   go on, a collaborator call that is awaited returns or raises, and the
   caller keeps iterating the generator, so that a step that stays possible is
   eventually taken *)

FairSpec == Spec /\ WF_vars(Next)

----------------------------------------------------------------------------
(* Two requests of do_research on one event loop. Each call of do_research
   has its own locals, among them the ResearchManager it creates, and its own
   run generator, so everything a request reads or writes is its own. The
   event loop runs one coroutine at a time and changes to another only where
   the running one is suspended, at an await or a yield, and every state of
   this model is such a point: the request taking steps is held in the
   variables, the suspended one in other, and Switch exchanges the two. *)

\* the request that is taking steps, as a record
Snapshot ==
    [entry |-> entry, query |-> query, config |-> config, pc |-> pc,
     total_steps |-> total_steps, completed_steps |-> completed_steps,
     search_plan |-> search_plan, followup_plan |-> followup_plan,
     running |-> running, results |-> results, failed |-> failed,
     finished |-> finished, search_results |-> search_results,
     followup_results |-> followup_results, loop_i |-> loop_i,
     fact_check_report |-> fact_check_report, inflight |-> inflight,
     calls |-> calls, sent |-> sent, events |-> events, shown |-> shown]

\* a request of do_research that has not taken a step yet
Fresh(q, depth) ==
    [entry |-> "app", query |-> q, config |-> AppConfig(depth), pc |-> "idle",
     total_steps |-> 0, completed_steps |-> 0,
     search_plan |-> <<>>, followup_plan |-> NoFollowUp,
     running |-> {}, results |-> <<>>, failed |-> {},
     finished |-> <<>>, search_results |-> <<>>,
     followup_results |-> <<>>, loop_i |-> 0,
     fact_check_report |-> None, inflight |-> "none",
     calls |-> <<>>, sent |-> <<>>, events |-> <<>>, shown |-> <<>>]

\* the planner returns at most MaxPairPlan tasks to each of the two requests
MaxPairPlan == 1

\* the depths the second request is made with
PairDepths == {"quick", "standard"}

\* with two requests every search returns a result
PairResponses(item) == {resp \in SearcherResponses(item) : ~ resp.raises}

PairInit ==
    /\ entry = "app" /\ query = "q"
    /\ config = AppConfig("quick")
    /\ pc = "idle"
    /\ total_steps = 0
    /\ completed_steps = 0
    /\ search_plan = <<>>
    /\ followup_plan = NoFollowUp
    /\ running = {}
    /\ results = <<>>
    /\ failed = {}
    /\ finished = <<>>
    /\ search_results = <<>>
    /\ followup_results = <<>>
    /\ loop_i = 0
    /\ fact_check_report = None
    /\ inflight = "none"
    /\ calls = <<>>
    /\ sent = <<>>
    /\ events = <<>>
    /\ shown = <<>>
    /\ \E d \in PairDepths : other = Fresh("q", d)

\* variant: one ResearchManager serves both requests
Switch_sharedmanager ==
    /\ other.pc # "absent"
    /\ other' = Snapshot
    /\ entry' = other.entry /\ query' = other.query /\ config' = other.config
    /\ pc' = other.pc
    /\ UNCHANGED <<total_steps, completed_steps>>
    /\ search_plan' = other.search_plan /\ followup_plan' = other.followup_plan
    /\ running' = other.running /\ results' = other.results
    /\ failed' = other.failed /\ finished' = other.finished
    /\ search_results' = other.search_results
    /\ followup_results' = other.followup_results
    /\ loop_i' = other.loop_i
    /\ fact_check_report' = other.fact_check_report
    /\ inflight' = other.inflight /\ calls' = other.calls /\ sent' = other.sent
    /\ events' = other.events /\ shown' = other.shown

\* the event loop goes on with the other request
Switch ==
    /\ other.pc # "absent"
    /\ other' = Snapshot
    /\ entry' = other.entry /\ query' = other.query /\ config' = other.config
    /\ pc' = other.pc
    /\ total_steps' = other.total_steps
    /\ completed_steps' = other.completed_steps
    /\ search_plan' = other.search_plan /\ followup_plan' = other.followup_plan
    /\ running' = other.running /\ results' = other.results
    /\ failed' = other.failed /\ finished' = other.finished
    /\ search_results' = other.search_results
    /\ followup_results' = other.followup_results
    /\ loop_i' = other.loop_i
    /\ fact_check_report' = other.fact_check_report
    /\ inflight' = other.inflight /\ calls' = other.calls /\ sent' = other.sent
    /\ events' = other.events /\ shown' = other.shown

\* the planner returns to the request that is taking steps
PairPlannerReturns ==
    /\ PlannerReturns
    /\ Len(search_plan') <= MaxPairPlan

\* one search of the request that is taking steps settles
PairSettles == Settle([item \in running |-> PairResponses(item)])

\* a step of the request that is taking steps, or a change of request
PairNext ==
    \/ Begin \/ Start \/ ResumeInit
    \/ CallPlanner \/ PairPlannerReturns
    \/ DispatchSearches \/ PairSettles \/ SearchesReturn \/ ResumeSearching
    \/ CallGapAnalyzer \/ GapAnalyzerReturns
    \/ DispatchFollowups \/ FollowupsReturn \/ ResumeFollowupSearching
    \/ CallFactChecker \/ FactCheckerReturns \/ ResumeFactCheckComplete
    \/ CallWriter \/ WriterReturns \/ ResumeWritingComplete
    \/ YieldReport \/ Finish
    \/ PhaseRaises
    \/ Switch

PairSpec == PairInit /\ [][PairNext]_vars

----------------------------------------------------------------------------
(* One fan-out of _perform_all_searches over tasks whose queries may be empty
   and a searcher whose echo of the query may be empty, the same or another
   text *)

\* the initial fan-out has at most MaxFan tasks
MaxFan == 3

\* the tasks of the fan-out: one without a query text and three with one
FanItems == {[query |-> <<>>]} \cup {WebSearchItem("initial", i) : i \in 1..3}

\* SearchResult.search_query as the searcher fills it in for a task: left
\* empty, the task's query, or a rewording of it
Echo(item) ==
    IF item.query = <<>> THEN <<>>
    ELSE CASE item.query[2] = 1 -> <<>>
           [] item.query[2] = 2 -> item.query
           [] OTHER -> <<"reworded", item.query[2]>>

EchoResponses(item) ==
    { [raises |-> TRUE,  search_query |-> <<>>],
      [raises |-> FALSE, search_query |-> Echo(item)] }

\* the lists of distinct tasks a planner may return
FanPlans ==
    {p \in UNION {[1..n -> FanItems] : n \in 1..MaxFan} :
        \A i, j \in 1..Len(p) : i # j => p[i] # p[j]}

\* run is awaiting the initial fan-out, whose tasks have just been created
FanInit ==
    /\ entry = "run"
    /\ query = "q"
    /\ config = AppConfig("quick")
    /\ pc = "await_searches"
    /\ total_steps = _calculate_total_steps(config)
    /\ completed_steps = Advance(0)
    /\ search_plan \in FanPlans
    /\ followup_plan = NoFollowUp
    /\ running = {search_plan[i] : i \in 1..Len(search_plan)}
    /\ results = <<>>
    /\ failed = {}
    /\ finished = <<>>
    /\ search_results = <<>>
    /\ followup_results = <<>>
    /\ loop_i = 0
    /\ fact_check_report = None
    /\ inflight = "none"
    /\ calls = <<"planner">> \o [i \in 1..Len(search_plan) |-> "searcher"]
    /\ sent = <<>>
    /\ events = << ProgressUpdate("init", Zero),
                   ProgressUpdate("planning", _update_progress(0, total_steps)),
                   ProgressUpdate("planning_complete",
                                  _update_progress(Advance(0), total_steps)) >>
    /\ shown = <<>>
    /\ other = NoRequest

FanSettles == Settle([item \in running |-> EchoResponses(item)])

FanNext == FanSettles \/ SearchesReturn

FanSpec == FanInit /\ [][FanNext]_vars

----------------------------------------------------------------------------
(* Vocabulary of the properties *)

Last(s) == s[Len(s)]

StageTags == {events[i].stage : i \in {j \in 1..Len(events) : events[j].kind = "progress"}}

\* positions of events that carry a ProgressUpdate
ProgressAt == {i \in 1..Len(events) : events[i].kind = "progress"}

\* the step budget of section 4.1, written out
SearchCount(depth) ==
    IF depth = "quick" THEN 3 ELSE IF depth = "standard" THEN 5 ELSE 10

Budget(cfg) ==
    2 + SearchCount(cfg.depth)
      + (IF cfg.enable_two_phase_search THEN 2 ELSE 0)
      + (IF cfg.enable_fact_check THEN 1 ELSE 0)
      + (IF cfg.send_email THEN 1 ELSE 0)

\* run has computed its estimate
Estimated == pc \notin {"idle", "started", "rejected"}

\* the stages that may directly follow a stage in a run's stream
Follows(stage) ==
    CASE stage = "init" -> {"planning"}
      [] stage = "planning" -> {"planning_complete"}
      [] stage = "planning_complete" ->
            {"searching", "analyzing_gaps", "fact_checking", "writing"}
      [] stage = "searching" ->
            {"searching", "analyzing_gaps", "fact_checking", "writing"}
      [] stage = "analyzing_gaps" -> {"followup_search", "fact_checking", "writing"}
      [] stage = "followup_search" -> {"followup_searching", "fact_checking", "writing"}
      [] stage = "followup_searching" ->
            {"followup_searching", "fact_checking", "writing"}
      [] stage = "fact_checking" -> {"fact_check_complete"}
      [] stage = "fact_check_complete" -> {"writing"}
      [] stage = "writing" -> {"writing_complete"}
      [] stage = "writing_complete" -> {"sending_email", "complete"}
      [] stage = "sending_email" -> {"email_sent"}
      [] stage = "email_sent" -> {"complete"}
      [] OTHER -> {}

----------------------------------------------------------------------------
(* C1: the stage tags of a run's progress events are a prefix of
   init, planning, planning_complete, searching*, [analyzing_gaps,
   [followup_search, followup_searching*]], [fact_checking,
   fact_check_complete], writing, writing_complete, [sending_email,
   email_sent], complete: the first tag is init, each tag is one the grammar
   allows after its predecessor, and a run that ended without a raise has
   complete as its last tag. *)
C1_StageOrder ==
    /\ events # <<>> => events[1] = ProgressUpdate("init", Zero)
    /\ \A i \in ProgressAt :
          i > 1 => /\ events[i - 1].kind = "progress"
                   /\ events[i].stage \in Follows(events[i - 1].stage)
    /\ pc = "done" => \E i \in ProgressAt :
                         /\ events[i].stage = "complete"
                         /\ \A j \in ProgressAt : j <= i

C1_Witness ==
    /\ pc = "done"
    /\ {"searching", "followup_searching", "fact_check_complete", "email_sent"}
          \subseteq StageTags

(* C2: a content payload is only ever the last item of the stream, it directly
   follows the progress event 'complete' carrying fraction 1.0, and a run that
   ended without a raise has yielded it; what do_research shows for such a run
   ends with its only content payload. *)
C2_ContentLast ==
    /\ \A i \in 1..Len(events) :
          events[i].kind = "content" =>
             /\ i = Len(events)
             /\ i > 1
             /\ events[i - 1] = ProgressUpdate("complete", One)
    /\ pc = "done" => events # <<>> /\ Last(events).kind = "content"
    /\ \A i \in 1..Len(shown) : shown[i].kind = "content" => i = Len(shown)
    /\ (entry = "app" /\ pc = "done") =>
          /\ Last(shown).kind = "content"
          /\ shown[Len(shown) - 1] = [kind |-> "progress", pct |-> One, len |-> 0]

C2_Witness ==
    /\ entry = "app" /\ pc = "done"
    /\ Len(events) > 2 /\ Last(events) = ReportBody

\* the collaborator awaited after a stage is announced
PhaseOfStage(stage) ==
    CASE stage = "planning" -> "planner"
      [] stage = "analyzing_gaps" -> "gap"
      [] stage = "fact_checking" -> "fact"
      [] stage = "writing" -> "writer"
      [] stage = "sending_email" -> "email"
      [] OTHER -> "no phase"

(* C3: once a collaborator of a non-search phase has raised, do_research has
   yielded exactly one error payload, as its last item, with a message of at
   most 300 characters; no content payload was yielded by run or by
   do_research; and the last collaborator invoked is the one of the last stage
   announced, so none of a later phase was invoked. *)
C3_ErrorTerminal ==
    LET errs == {i \in 1..Len(shown) : shown[i].kind = "error"}
    IN  /\ \A i \in errs : i = Len(shown) /\ shown[i].len <= 300
        /\ errs # {} => pc = "error"
        /\ pc = "error" => errs = {Len(shown)}
        /\ pc \in {"error", "raised"} =>
              /\ inflight = "none"
              /\ \A i \in 1..Len(events) : events[i].kind # "content"
              /\ \A i \in 1..Len(shown) : shown[i].kind # "content"
              /\ Last(calls) = PhaseOfStage(Last(events).stage)

C3_Witness ==
    /\ pc = "error"
    /\ Last(calls) = "writer"
    /\ Last(shown).kind = "error" /\ Last(shown).len = 300
    /\ "followup_searching" \in StageTags

(* C4: a fan-out over N items of which K made the searcher raise holds, when
   all its tasks have settled, exactly N-K results, one for each item that did
   not fail and none for a failed one; while it runs, results, running tasks
   and failures add up to N; and a run never ends in an error right after a
   searcher call. *)
C4_FanOutCount ==
    /\ pc \in {"await_searches", "await_followups"} =>
          LET phase == IF pc = "await_searches" THEN "initial" ELSE "followup"
              items == IF pc = "await_searches" THEN search_plan
                       ELSE followup_plan.searches
              N == Len(items)
              lost == {it \in failed : it.query[1] = phase}
              K == Cardinality(lost)
          IN  /\ Len(results) + Cardinality(running) + K = N
              /\ running = {} =>
                    /\ Len(results) = N - K
                    /\ \A n \in 1..N :
                          Cardinality({i \in 1..Len(results) :
                                          results[i].item = items[n]})
                             = IF items[n] \in lost THEN 0 ELSE 1
    /\ pc \in {"error", "raised"} => Last(calls) # "searcher"

C4_Witness ==
    /\ pc = "await_searches" /\ running = {}
    /\ Len(search_plan) = 4
    /\ Cardinality(failed) = 2
    /\ Len(results) = 2

(* C5 as stated: in a run that has not ended in an error, no progress event
   carries a lower fraction than an earlier one. *)
C5_Original ==
    pc \notin {"error", "raised"} =>
       \A i \in ProgressAt : \A j \in ProgressAt :
          i < j => FracLeq(events[i].progress, events[j].progress)

(* C5 amended: each progress event carries a fraction at least that of the
   event before it, except the event that directly follows followup_search
   (the first one computed after total_steps has grown). *)
C5_MonotoneApartFromGrowth ==
    \A i \in ProgressAt :
       (i > 1 /\ events[i - 1].stage # "followup_search") =>
          FracLeq(events[i - 1].progress, events[i].progress)

C5_Witness ==
    /\ pc = "done"
    /\ \E i \in ProgressAt :
          /\ i > 1
          /\ events[i - 1].stage = "followup_search"
          /\ ~ FracLeq(events[i - 1].progress, events[i].progress)

(* C6: every fraction carried by a progress event lies in [0, 1]. *)
C6_FractionInUnitInterval ==
    \A i \in ProgressAt :
       /\ events[i].progress[2] > 0
       /\ events[i].progress[1] >= 0
       /\ events[i].progress[1] <= events[i].progress[2]

C6_Witness ==
    /\ completed_steps > total_steps
    /\ Last(events).kind = "progress"
    /\ Last(events).stage = "writing_complete"
    /\ Last(events).progress = One

(* C7: in a run whose total_steps was never grown (no follow-up search was
   announced), the fractions of successive progress events never decrease. *)
C7_MonotoneWithoutGrowth ==
    "followup_search" \notin StageTags =>
       \A j \in ProgressAt \ {1} :
          events[j - 1].progress[1] * events[j].progress[2]
             <= events[j].progress[1] * events[j - 1].progress[2]

C7_Witness ==
    /\ pc = "done"
    /\ "analyzing_gaps" \in StageTags
    /\ "followup_search" \notin StageTags
    /\ total_steps = Budget(config)
    /\ Len(search_results) >= 2

(* C8: when run has computed its estimate and yielded init, total_steps is
   2 + search_count(depth) + 2 if two-phase + 1 if fact-check + 1 if
   send_email, with search_count 3, 5, 10, and completed_steps is 0. *)
C8_InitialBudget ==
    pc = "init" =>
       /\ total_steps = Budget(config)
       /\ completed_steps = 0

C8_Witness ==
    /\ pc = "init"
    /\ config.depth = "deep"
    /\ config.enable_two_phase_search /\ config.enable_fact_check
    /\ config.send_email
    /\ total_steps = 16

\* the gap analyzer has returned the flag together with a non-empty list
C9_Fires ==
    /\ followup_plan.returned
    /\ followup_plan.needs_followup
    /\ Len(followup_plan.searches) > 0

C9_State ==
    Estimated =>
       /\ total_steps >= 2 + SearchCount(config.depth)
       /\ total_steps = Budget(config)
             + (IF C9_Fires /\ pc # "followup_search"
                THEN Len(followup_plan.searches) ELSE 0)

C9_Step ==
    (Estimated /\ total_steps' # total_steps) =>
       /\ total_steps = Budget(config)
       /\ C9_Fires
       /\ total_steps' = total_steps + Len(followup_plan.searches)

(* C9: after the estimate total_steps is at least 2 + search_count(depth); it
   equals the estimate until the follow-up fan-out is dispatched and the
   estimate plus the number of follow-up items from then on, which happens
   exactly when the gap analyzer returned needs_followup with a non-empty
   list; and every step that changes total_steps after the estimate is that
   one increase. *)
C9_TotalSteps == [] C9_State /\ [][C9_Step]_vars

C9_Witness ==
    /\ pc = "done"
    /\ C9_Fires
    /\ total_steps = Budget(config) + Len(followup_plan.searches)

\* some trace of a follow-up fan-out exists
FollowupActivity ==
    \/ "followup_search" \in StageTags
    \/ "followup_searching" \in StageTags
    \/ \E it \in running \cup failed : it.query[1] = "followup"
    \/ \E i \in 1..Len(search_results) : search_results[i].item.query[1] = "followup"
    \/ \E i \in 1..Len(followup_results) : TRUE
    \/ Cardinality({i \in 1..Len(calls) : calls[i] = "searcher"}) > Len(search_plan)

(* C10: a follow-up search task, a follow-up searcher call or a
   followup_search / followup_searching event exists only if the gap analyzer
   returned needs_followup=true and a non-empty list; when it returned
   anything else there is none of them and total_steps is the estimate. *)
C10_FollowupOnlyWhenFlaggedAndNonEmpty ==
    /\ FollowupActivity =>
          /\ followup_plan.returned
          /\ followup_plan.needs_followup
          /\ followup_plan.searches # <<>>
    /\ (followup_plan.returned
          /\ ~ (followup_plan.needs_followup /\ followup_plan.searches # <<>>)) =>
          /\ ~ FollowupActivity
          /\ total_steps = Budget(config)

C10_Witness ==
    /\ pc = "done"
    /\ followup_plan.returned
    /\ followup_plan.needs_followup
    /\ followup_plan.searches = <<>>

\* number of invocations of a collaborator so far
CallCount(name) == Cardinality({i \in 1..Len(calls) : calls[i] = name})

\* initial search items whose searcher call did not raise, once all have settled
InitialOutcomes ==
    Len(search_plan) - Cardinality({it \in failed : it.query[1] = "initial"})

\* the run has gone past the search phases: fact-check or writing was announced
PastSearching == "fact_checking" \in StageTags \/ "writing" \in StageTags

(* C11 as stated: with two-phase search enabled, once the run has gone past
   the searches the gap analyzer was invoked exactly once and analyzing_gaps
   was emitted, whatever the number of successful initial outcomes. *)
C11_Original ==
    (config.enable_two_phase_search /\ PastSearching) =>
       /\ "analyzing_gaps" \in StageTags
       /\ CallCount("gap") = 1

(* C11 amended: with two-phase search enabled, once the run has gone past the
   searches, the gap analyzer was invoked exactly once and analyzing_gaps was
   emitted if at least one initial search succeeded; if none succeeded the gap
   analyzer was not invoked and analyzing_gaps was not emitted. *)
C11_GapAnalysisWhenOutcomes ==
    (config.enable_two_phase_search /\ PastSearching) =>
       IF InitialOutcomes > 0
       THEN "analyzing_gaps" \in StageTags /\ CallCount("gap") = 1
       ELSE "analyzing_gaps" \notin StageTags /\ CallCount("gap") = 0

C11_Witness ==
    /\ pc = "done"
    /\ config.enable_two_phase_search
    /\ Len(search_plan) = 3 /\ InitialOutcomes = 1
    /\ CallCount("gap") = 1

(* C12: with two-phase search disabled the gap analyzer is never invoked and
   no analyzing_gaps, followup_search or followup_searching event is emitted;
   with fact-check disabled the fact checker is never invoked and no
   fact_checking or fact_check_complete event is emitted. *)
C12_DisabledPhaseNeverRuns ==
    /\ ~ config.enable_two_phase_search =>
          /\ CallCount("gap") = 0
          /\ StageTags \cap {"analyzing_gaps", "followup_search",
                             "followup_searching"} = {}
    /\ ~ config.enable_fact_check =>
          /\ CallCount("fact") = 0
          /\ StageTags \cap {"fact_checking", "fact_check_complete"} = {}

C12_Witness ==
    /\ pc = "done"
    /\ ~ config.enable_two_phase_search
    /\ ~ config.enable_fact_check
    /\ Len(search_results) = 2

(* C13 as stated: with depth quick, two-phase search and fact-check disabled,
   total_steps is 5 from the estimate on. *)
C13_Original ==
    (Estimated /\ config.depth = "quick" /\ ~ config.enable_two_phase_search
       /\ ~ config.enable_fact_check) => total_steps = 5

(* C13 amended: with depth quick and two-phase search, fact-check and
   send_email all disabled, total_steps is 5 from the estimate on. *)
C13_QuickPlainBudget ==
    (Estimated /\ config.depth = "quick" /\ ~ config.enable_two_phase_search
       /\ ~ config.enable_fact_check /\ ~ config.send_email) => total_steps = 5

C13_Witness ==
    /\ pc = "done"
    /\ config.depth = "quick" /\ ~ config.enable_two_phase_search
    /\ ~ config.enable_fact_check /\ ~ config.send_email
    /\ completed_steps = 6 /\ total_steps = 5

\* the delivery phase has left a trace: its call or one of its two events
DeliveryUsed ==
    \/ CallCount("email") > 0
    \/ StageTags \cap {"sending_email", "email_sent"} # {}

\* config.email_address is neither missing nor empty
AddressGiven == config.email_address \notin {"None", ""}

\* the content payload has been emitted
ContentEmitted == \E i \in 1..Len(events) : events[i].kind = "content"

(* C14: delivery is invoked, and sending_email / email_sent are emitted, only
   when send_email is true and email_address is non-empty, and a run configured
   so that reaches 'complete' has invoked delivery exactly once and emitted
   both events; with send_email true and no address, delivery is never invoked,
   neither event is emitted, nothing raises once the report is written, and
   the run ends with the content payload. *)
C14_DeliveryIffFlagAndAddress ==
    /\ DeliveryUsed => config.send_email /\ AddressGiven
    /\ (config.send_email /\ AddressGiven /\ "complete" \in StageTags) =>
          /\ CallCount("email") = 1
          /\ {"sending_email", "email_sent"} \subseteq StageTags
    /\ (config.send_email /\ ~ AddressGiven) =>
          /\ "writing_complete" \in StageTags => pc \notin {"error", "raised"}
          /\ pc = "done" => Last(events).kind = "content"

C14_Witness ==
    /\ pc = "done"
    /\ config.send_email /\ config.email_address = ""
    /\ Last(events).kind = "content"

(* C15: while the delivery call is in flight neither 'complete' nor the
   content payload has been emitted; when delivery fired and one of them has
   been emitted, the delivery call had returned (email_sent was emitted and
   nothing is in flight); after the delivery call raised neither is emitted. *)
C15_DeliverySettlesBeforeCompletion ==
    /\ inflight = "email" =>
          "complete" \notin StageTags /\ ~ ContentEmitted
    /\ (CallCount("email") > 0 /\ ("complete" \in StageTags \/ ContentEmitted)) =>
          /\ inflight = "none"
          /\ "email_sent" \in StageTags
          /\ CallCount("email") = 1
    /\ (pc \in {"error", "raised"} /\ Len(calls) > 0 /\ Last(calls) = "email") =>
          "complete" \notin StageTags /\ ~ ContentEmitted

C15_Witness ==
    /\ pc = "done"
    /\ CallCount("email") = 1
    /\ "email_sent" \in StageTags /\ "complete" \in StageTags
    /\ ContentEmitted

\* the items of a list of search tasks, as a set
ItemsOf(searches) == {searches[i] : i \in 1..Len(searches)}

\* the tasks of one phase that have settled, by success or by failure
SettledIn(phase) ==
    {it \in failed : it.query[1] = phase}
       \cup {finished[i] : i \in {j \in 1..Len(finished) : finished[j].query[1] = phase}}

\* position of a collaborator call in the order of the phases
PhaseRank(i) ==
    CASE calls[i] = "planner" -> 1
      [] calls[i] = "searcher" -> IF i <= 1 + Len(search_plan) THEN 2 ELSE 4
      [] calls[i] = "gap" -> 3
      [] calls[i] = "fact" -> 5
      [] calls[i] = "writer" -> 6
      [] OTHER -> 7

(* C16: phases are sequential: a search task is in flight only while run
   awaits a fan-out, with no other collaborator call in flight, and all tasks
   in flight belong to one fan-out; no search task was started before the
   planner returned; follow-up tasks are started only after every initial task
   and the gap analyzer have settled; while the gap analyzer, the fact checker
   or the writer is in flight every started search task has settled; the
   writer starts only after the fact checker has returned; collaborator calls
   are started in the order of the phases. *)
C16_PhasesSequential ==
    /\ running # {} =>
          /\ inflight = "none"
          /\ pc \in {"await_searches", "await_followups"}
    /\ pc = "await_searches" => \A it \in running : it.query[1] = "initial"
    /\ pc = "await_followups" =>
          /\ \A it \in running : it.query[1] = "followup"
          /\ SettledIn("initial") = ItemsOf(search_plan)
          /\ followup_plan.returned
    /\ CallCount("searcher") > 0 => "planning_complete" \in StageTags
    /\ inflight \in {"gap", "fact", "writer", "email"} =>
          /\ running = {}
          /\ CallCount("searcher") = Len(finished) + Cardinality(failed)
    /\ (inflight = "writer" /\ config.enable_fact_check) =>
          "fact_check_complete" \in StageTags
    /\ \A i \in 1..(Len(calls) - 1) : PhaseRank(i) <= PhaseRank(i + 1)

C16_Witness ==
    /\ inflight = "writer"
    /\ CallCount("fact") = 1 /\ CallCount("gap") = 1
    /\ CallCount("searcher") = Len(search_plan) + 1
    /\ Len(search_plan) = 2

(* C17: while run awaits a fan-out, every task of it has been started: each
   planned item is either in flight or settled, so that before the first
   result is collected all of them are in flight together; any task in flight
   may settle next, so every completion order occurs. *)
C17_AllStartedBeforeCollection ==
    /\ pc = "await_searches" =>
          /\ running \cup SettledIn("initial") = ItemsOf(search_plan)
          /\ running \cap SettledIn("initial") = {}
          /\ CallCount("searcher") = Len(search_plan)
    /\ pc = "await_followups" =>
          /\ running \cup SettledIn("followup") = ItemsOf(followup_plan.searches)
          /\ running \cap SettledIn("followup") = {}
          /\ CallCount("searcher") = Len(search_plan) + Len(followup_plan.searches)

\* the tasks of a plan of four completed in the reverse of the planned order
C17_Witness ==
    /\ pc = "await_searches"
    /\ Len(search_plan) = 4 /\ Len(results) = 4
    /\ \A i \in 1..4 : results[i].item = search_plan[5 - i]

(* C18: the collection handed to the fact checker and to the writer holds the
   items of the successful tasks in the order in which the tasks completed,
   initial phase first and follow-up phase after it: no follow-up outcome
   precedes an initial outcome. *)
C18_CompletionOrderInitialFirst ==
    inflight \in {"fact", "writer"} =>
       /\ [i \in 1..Len(search_results) |-> search_results[i].item] = finished
       /\ \A i \in 1..(Len(search_results) - 1) :
             search_results[i].item.query[1] = "followup" =>
                search_results[i + 1].item.query[1] = "followup"

\* completion order differs from planned order, and a follow-up outcome is last
C18_Witness ==
    /\ inflight = "writer"
    /\ Len(search_results) = 4
    /\ search_results[1].item = search_plan[3]
    /\ search_results[2].item = search_plan[1]
    /\ search_results[4].item.query[1] = "followup"

\* the query previews of the per-item events of one stage, in order of emission
AboutOf(stage) ==
    LET sel == SelectSeq(events, LAMBDA e : e.kind = "progress" /\ e.stage = stage)
    IN  [i \in 1..Len(sel) |-> sel[i].about]

\* the query previews of the successful tasks of one phase, in completion order
FinishedQueries(phase) ==
    LET sel == SelectSeq(finished, LAMBDA it : it.query[1] = phase)
    IN  [i \in 1..Len(sel) |-> Preview(sel[i].query)]

IsPrefix(a, b) == Len(a) <= Len(b) /\ \A i \in 1..Len(a) : a[i] = b[i]

\* number of progress events of the stages that report a completed step
StepEvents ==
    Cardinality({i \in ProgressAt : events[i].stage \in
        {"planning_complete", "searching", "followup_searching",
         "fact_check_complete", "writing_complete", "email_sent"}})

(* C19: the per-item events of a fan-out (searching, followup_searching) name
   the successful tasks of that fan-out in their completion order, one event
   per successful task once the loop over the results has ended, and none
   names a failed task; completed_steps advances by exactly one with each of
   them: it equals the number of step-reporting events emitted, plus one for
   the gap analysis once that has returned. *)
C19_OneEventPerOutcomeInCompletionOrder ==
    LET tags == StageTags
        first == AboutOf("searching")
        second == AboutOf("followup_searching")
        firstDone == FinishedQueries("initial")
        secondDone == FinishedQueries("followup")
    IN  /\ IF tags \cap {"analyzing_gaps", "fact_checking", "writing"} # {}
           THEN first = firstDone
           ELSE IsPrefix(first, firstDone)
        /\ IF tags \cap {"fact_checking", "writing"} # {}
           THEN second = secondDone
           ELSE IsPrefix(second, secondDone)
        /\ \A it \in failed : \A i \in 1..Len(events) :
              events[i].about # Preview(it.query)
        /\ Estimated =>
              completed_steps = StepEvents + (IF followup_plan.returned THEN 1 ELSE 0)

C19_Witness ==
    /\ pc = "done"
    /\ Len(search_plan) = 3
    /\ Cardinality(failed) = 1
    /\ AboutOf("searching") = <<search_plan[3].query, search_plan[1].query>>
    /\ Len(AboutOf("followup_searching")) = 1

(* C20 as stated: the event of a successful task is emitted as the task
   completes, so that of the successful tasks of the initial fan-out at most
   the one that completed last is still without its event. *)
C20_Original ==
    Len(AboutOf("searching")) >= Len(FinishedQueries("initial")) - 1

(* C20 amended: the per-item events of a fan-out are emitted only after every
   task of that fan-out has settled and the fan-out has returned: while run
   awaits a fan-out none of its per-item events has been emitted, and once one
   has been emitted every task of the fan-out has settled. *)
C20_EventsAfterFanOutReturns ==
    LET tags == StageTags
    IN  /\ pc = "await_searches" => "searching" \notin tags
        /\ pc = "await_followups" => "followup_searching" \notin tags
        /\ "searching" \in tags =>
              SettledIn("initial") = ItemsOf(search_plan)
        /\ "followup_searching" \in tags =>
              SettledIn("followup") = ItemsOf(followup_plan.searches)

\* the first per-item event is out; all three tasks had settled before it
C20_Witness ==
    /\ pc = "searching"
    /\ Len(AboutOf("searching")) = 1
    /\ Len(search_plan) = 3 /\ Len(search_results) = 3

\* a run has come to its end: 'complete' then the content payload; or the one
\* error payload of do_research; or, for a direct caller of run, the exception
RunOutcome ==
    \/ /\ pc = "done"
       /\ Len(events) >= 2
       /\ events[Len(events) - 1].stage = "complete"
       /\ Last(events).kind = "content"
    \/ /\ pc = "error"
       /\ Last(shown).kind = "error"
       /\ Cardinality({i \in 1..Len(shown) : shown[i].kind = "error"}) = 1
    \/ pc = "raised"

(* C27: when every collaborator call returns or raises and the caller keeps
   consuming, every request that is not rejected eventually reaches a terminal
   outcome: 'complete' followed by the content payload, or one error payload
   (the exception itself for a direct caller of run); in particular no fan-out
   waits forever, whether or not tasks of it failed. *)
C27_EventuallyTerminal == <>(RunOutcome \/ pc = "rejected")

\* a run ends normally although a task of each of its two fan-outs had failed
C27_Witness ==
    /\ RunOutcome /\ pc = "done"
    /\ \E it \in failed : it.query[1] = "initial"
    /\ \E it \in failed : it.query[1] = "followup"

\* the query field an accepted outcome must carry, given what the searcher
\* filled in for its task
Accepted(r) ==
    /\ r.item.query # <<>> => r.search_query # <<>>
    /\ Echo(r.item) = <<>> => r.search_query = r.item.query
    /\ Echo(r.item) # <<>> => r.search_query = Echo(r.item)

(* C21: every outcome a fan-out accepts has a non-empty query field when its
   task's query is non-empty: an empty query field returned by the searcher is
   replaced by the task's query, a non-empty one is kept as returned. *)
C21_QueryBackfilled ==
    /\ \A i \in 1..Len(results) : Accepted(results[i])
    /\ \A i \in 1..Len(search_results) : Accepted(search_results[i])

\* the fan-out returned a backfilled outcome after one whose echo was reworded
C21_Witness ==
    /\ pc = "searching"
    /\ Len(search_results) = 3
    /\ search_results[1].item = WebSearchItem("initial", 3)
    /\ search_results[1].search_query # search_results[1].item.query
    /\ search_results[2].item = WebSearchItem("initial", 1)
    /\ search_results[2].search_query = search_results[2].item.query

\* the number of facts of all outcomes of a list
RECURSIVE FactTotal(_)
FactTotal(sr) ==
    IF sr = <<>> THEN 0 ELSE Len(key_facts(Head(sr))) + FactTotal(Tail(sr))

\* the k-th fact when the fact lists of the outcomes are put one after another
RECURSIVE FactAt(_, _)
FactAt(sr, k) ==
    IF k <= Len(key_facts(Head(sr))) THEN key_facts(Head(sr))[k]
    ELSE FactAt(Tail(sr), k - Len(key_facts(Head(sr))))

(* C22: the fact list handed to the fact checker is the first min(20, F) facts
   of the outcomes' fact lists put one after another in outcome order, F being
   the number of all facts; the writer's input holds the whole fact list of
   every accumulated outcome. *)
C22_FactListCappedForFactCheckOnly ==
    /\ inflight = "fact" =>
          LET F == FactTotal(search_results)
              n == IF F < 20 THEN F ELSE 20
          IN  /\ Len(sent.claims) = n
              /\ \A k \in 1..n : sent.claims[k] = FactAt(search_results, k)
    /\ inflight = "writer" =>
          /\ Len(sent.search_summaries) = Len(search_results)
          /\ \A i \in 1..Len(search_results) :
                sent.search_summaries[i].key_facts = key_facts(search_results[i])

\* 44 facts were found; the fact checker has seen 20, the writer is given all
C22_Witness ==
    /\ inflight = "writer"
    /\ fact_check_report # None
    /\ Len(search_results) = 5
    /\ FactTotal(search_results) = 44

(* C23: the fact checker is invoked at most once in any run and, with
   fact-check enabled, exactly once in a run that ends normally; when it is
   invoked no search task is in flight, every successful outcome of the
   initial and of the follow-up fan-out is in the accumulated collection, and
   its input lists the summary of each of them. *)
C23_FactCheckOnceOverAllOutcomes ==
    /\ CallCount("fact") <= 1
    /\ pc = "done" => CallCount("fact") = (IF config.enable_fact_check THEN 1 ELSE 0)
    /\ inflight = "fact" =>
          /\ running = {}
          /\ [i \in 1..Len(search_results) |-> search_results[i].item] = finished
          /\ sent.summaries =
                [i \in 1..Len(finished) |-> <<"summary", finished[i].query>>]

C23_Witness ==
    /\ inflight = "fact"
    /\ Len(search_results) = 3
    /\ search_results[3].item.query[1] = "followup"
    /\ Len(sent.summaries) = 3

\* the first n elements of s, or all of s when it has fewer
FirstOf(s, n) == [k \in 1..(IF Len(s) < n THEN Len(s) ELSE n) |-> s[k]]

(* C28: the writer is invoked at most once in any run and exactly once in a
   run that ends normally; its input holds one digest per accumulated outcome,
   in the order of the collection, which holds every successful outcome once;
   a digest lists the first 3 sources of its outcome, or all when there are
   fewer; the writer is told of a fact check exactly when the fact checker
   ran. *)
C28_WriterOnceOverAllOutcomes ==
    /\ CallCount("writer") <= 1
    /\ pc = "done" => CallCount("writer") = 1
    /\ inflight = "writer" =>
          /\ [i \in 1..Len(search_results) |-> search_results[i].item] = finished
          /\ Len(sent.search_summaries) = Len(search_results)
          /\ \A i \in 1..Len(search_results) :
                /\ sent.search_summaries[i].search_query =
                      search_results[i].search_query
                /\ sent.search_summaries[i].summary = summary(search_results[i])
                /\ sent.search_summaries[i].sources =
                      FirstOf(sources(search_results[i]), 3)
          /\ sent.has_fact_check <=> CallCount("fact") = 1

\* digests of outcomes with 4 and with 5 sources, after a fact check
C28_Witness ==
    /\ inflight = "writer"
    /\ sent.has_fact_check
    /\ \E i \in 1..Len(search_results) : Len(sources(search_results[i])) = 4
    /\ \E i \in 1..Len(search_results) : Len(sources(search_results[i])) = 5

(* C24: a request of do_research whose query is empty or blank is rejected:
   the caller is shown one prompt and nothing else, no run is started, no step
   budget is computed, no collaborator is invoked and the run emits nothing. *)
C24_BlankQueryRejected ==
    (entry = "app" /\ query \in {"", " "}) =>
       /\ pc \in {"idle", "rejected"}
       /\ events = <<>> /\ calls = <<>>
       /\ total_steps = 0 /\ completed_steps = 0
       /\ running = {} /\ inflight = "none"
       /\ IF pc = "rejected"
          THEN Len(shown) = 1 /\ shown[1].kind = "prompt"
          ELSE shown = <<>>

C24_Witness ==
    /\ pc = "rejected"
    /\ query = " "
    /\ Len(shown) = 1 /\ shown[1].kind = "prompt"

(* C25: when every task of the initial fan-out fails, the outcome set is empty
   and the run goes on: the failure of the searches raises nothing, the fact
   checker (when enabled) and the writer are invoked with an empty outcome
   set, and a run in which no other collaborator raises ends with 'complete'
   and the content payload. *)
C25_NoOutcomeStillReports ==
    (search_plan # <<>> /\ ItemsOf(search_plan) \subseteq failed) =>
       /\ search_results = <<>>
       /\ pc \in {"error", "raised"} => Last(calls) \in {"fact", "writer", "email"}
       /\ inflight = "fact" => sent.claims = <<>> /\ sent.summaries = <<>>
       /\ inflight = "writer" =>
             /\ sent.search_summaries = <<>>
             /\ CallCount("fact") = (IF config.enable_fact_check THEN 1 ELSE 0)
       /\ pc = "done" =>
             /\ CallCount("writer") = 1
             /\ CallCount("fact") = (IF config.enable_fact_check THEN 1 ELSE 0)
             /\ events[Len(events) - 1].stage = "complete"
             /\ Last(events).kind = "content"

C25_Witness ==
    /\ pc = "done"
    /\ Len(search_plan) = 3 /\ Cardinality(failed) = 3
    /\ config.enable_fact_check /\ config.enable_two_phase_search
    /\ Last(events).kind = "content"

\* run is suspended at a yield, or has ended
NotAwaiting ==
    pc \notin {"await_planner", "await_searches", "await_gap", "await_followups",
               "await_fact", "await_writer", "await_email"}

(* C26: whenever run is suspended at a yield (or has ended) no search task and
   no other collaborator call is in flight: every search task that was started
   has settled. *)
C26_NothingInFlightAtYield ==
    NotAwaiting =>
       /\ running = {}
       /\ inflight = "none"
       /\ CallCount("searcher") = Len(finished) + Cardinality(failed)

\* suspended at a per-item yield after a fan-out in which two of four tasks failed
C26_Witness ==
    /\ pc = "searching"
    /\ Len(search_plan) = 4
    /\ Cardinality(failed) = 2
    /\ running = {}

\* a step taken while a collaborator is awaited, and what it does to the counters
C29_Step ==
    /\ (pc \in {"await_searches", "await_followups"} /\ pc' = pc) =>
          UNCHANGED <<total_steps, completed_steps>>
    /\ (~ NotAwaiting /\ pc' \in {"error", "raised"}) =>
          UNCHANGED <<total_steps, completed_steps>>
    /\ (pc \in {"await_searches", "await_followups"} /\ pc' # pc) =>
          /\ total_steps' = total_steps
          /\ completed_steps' = completed_steps + (IF results = <<>> THEN 0 ELSE 1)
    /\ (pc \in {"await_planner", "await_gap", "await_fact", "await_writer",
                "await_email"} /\ pc' \notin {"error", "raised"}) =>
          /\ total_steps' = total_steps
          /\ completed_steps' = completed_steps + 1

(* C29: the fan-out and the phase helpers leave completed_steps and
   total_steps alone: no counter changes when a search task settles or when an
   awaited call raises, and when an awaited call or fan-out returns the only
   change is the one step run itself counts on resumption. *)
C29_HelpersLeaveCounters == [][C29_Step]_vars

\* two tasks of three have settled and the counters are as at the dispatch
C29_Witness ==
    /\ pc = "await_searches"
    /\ Len(search_plan) = 3 /\ Cardinality(running) = 1
    /\ Len(results) = 1 /\ Cardinality(failed) = 1
    /\ completed_steps = 1 /\ total_steps = Budget(config)

(* C30: when the planner returns no more tasks than the depth's search count,
   completed_steps never exceeds total_steps, so no event before 'complete'
   carries the clamped fraction 1.0 in place of completed_steps/total_steps. *)
C30_CompletedWithinTotal ==
    Len(search_plan) <= SearchCount(config.depth) =>
       /\ completed_steps <= total_steps
       /\ \A i \in 1..Len(events) :
             events[i].stage \notin {"complete", "markdown_report"} =>
                events[i].progress # <<1, 1>>

\* every planned search succeeded and the run used its whole budget
C30_Witness ==
    /\ pc = "done"
    /\ config.depth = "quick" /\ Len(search_plan) = 3
    /\ completed_steps = total_steps

(* C31: when the planner returned exactly the depth's search count of tasks,
   at the moment 'complete' is emitted completed_steps equals total_steps if
   and only if two-phase search is disabled, no search task failed and
   send_email comes with a non-empty address; otherwise completed_steps is
   below total_steps. *)
C31_BudgetMetOnlyInPlainRuns ==
    (pc = "complete" /\ Len(search_plan) = SearchCount(config.depth)) =>
       IF /\ ~ config.enable_two_phase_search
          /\ failed = {}
          /\ config.send_email => config.email_address \notin {"None", ""}
       THEN completed_steps = total_steps
       ELSE completed_steps < total_steps

\* a delivered run without the second phase that used its whole budget
C31_Witness ==
    /\ pc = "complete"
    /\ config.depth = "quick" /\ Len(search_plan) = 3
    /\ config.send_email /\ config.email_address = "a@b"
    /\ config.enable_fact_check /\ ~ config.enable_two_phase_search
    /\ completed_steps = 7 /\ total_steps = 7

(* C33: in a run without follow-up growth of the total, the percentage
   do_research displays never decreases from one displayed update to the
   next, from the 'Starting...' update through the updates made from the
   run's progress events. *)
C33_DisplayedNeverDecreases ==
    "followup_search" \notin StageTags =>
       \A j \in 2..Len(shown) :
          (shown[j - 1].kind \in {"starting", "progress"}
             /\ shown[j].kind = "progress") =>
             Percent(shown[j - 1].pct) <= Percent(shown[j].pct)

\* the two requests, whichever of them is taking steps
Requests == {Snapshot, other}

\* the events of request r up to the i-th at which run counted a step
Counted(r, i) ==
    {j \in 1..i :
        \/ r.events[j].stage \in {"planning_complete", "searching", "followup_searching",
                                  "fact_check_complete", "writing_complete"}
        \/ j > 1 /\ r.events[j - 1].stage = "analyzing_gaps"}

\* request r has entered its follow-up fan-out before its i-th event
Grown(r, i) == \E j \in 1..(i - 1) : r.events[j].stage = "followup_search"

\* the total of request r at its i-th event, from its own config and plan
OwnTotal(r, i) ==
    Budget(r.config) + (IF Grown(r, i) THEN Len(r.followup_plan.searches) ELSE 0)

\* the fraction request r emits at its i-th event when it runs alone
OwnFraction(r, i) ==
    IF r.events[i].stage \in {"init", "markdown_report"}
    THEN r.events[i].progress
    ELSE IF r.events[i].stage = "complete" THEN One
    ELSE LET c == Cardinality(Counted(r, i))
             t == OwnTotal(r, i)
         IN  IF c <= t THEN <<c, t>> ELSE One

(* C32: two requests of do_research are isolated, however their steps
   interleave. Each request's total_steps and completed_steps are the ones
   its own events, config and follow-up plan account for, so no step of one
   request has changed the counters of the other, and every fraction a
   request has emitted, and do_research has displayed for it, is the fraction
   the same request emits when it runs alone. *)
C32_RequestsIsolated ==
    \A r \in Requests :
       /\ r.pc \notin {"idle", "started"} =>
             /\ r.total_steps = OwnTotal(r, Len(r.events) +
                                   (IF r.pc = "followup_search" THEN 0 ELSE 1))
             /\ r.completed_steps = Cardinality(Counted(r, Len(r.events)))
       /\ \A i \in 1..Len(r.events) :
             /\ r.events[i].progress = OwnFraction(r, i)
             /\ r.shown[i + 1].pct = r.events[i].progress

\* both requests have counted steps against different totals, and the one
\* taking steps has emitted an event after the other one did
C32_Witness ==
    /\ other.pc = "planning_complete" /\ pc = "writing_complete"
    /\ total_steps # other.total_steps
    /\ completed_steps > other.completed_steps
    /\ other.completed_steps = 1
    /\ Len(search_plan) = 1 /\ "followup_searching" \in StageTags

====
